---- MODULE Spec2Model ----
(***************************************************************************)
(* A model of the motion and camera-control core of the three.js space     *)
(* template: GameLoop (fixed-step scheduler), SpaceScene / Planet (orbital  *)
(* kinematics), CameraController (free-fly, transitions, follow) and the    *)
(* part of InputManager these read.                                         *)
(*                                                                          *)
(* Arithmetic.  JavaScript numbers are modelled by integers:                *)
(*   - time is counted in units of 1/3 ms, so that the 60 FPS step          *)
(*     1000/60 ms is the integer 50 and one second is 3000;                 *)
(*   - a logic update's deltaTime (seconds) is carried in the same unit;    *)
(*   - lengths are counted in 1/60 world unit (PosScale);                   *)
(*   - fractions (progress, easing, follow speed, unit vectors) are fixed   *)
(*     point with denominator Permille, rounded by \div.                    *)
(* JavaScript is single threaded: a handler runs to completion.  loop() is  *)
(* split at its while loop (pc), and no other handler runs while pc is not  *)
(* "idle".                                                                  *)
(***************************************************************************)
EXTENDS Integers, Sequences, FiniteSets

VARIABLES
    now,            \* the wall clock (performance.now(), Date.now(), rAF timestamps)
    \* GameLoop
    isRunning, lastTime, accumulator, frameTime, updateCallback, renderCallback,
    rafLoop,        \* number of requestAnimationFrame(this.loop) callbacks pending
    pc,             \* position inside loop(): "idle" or "while"
    frameLog,       \* callbacks invoked by the frame being (or last) processed
    \* history of the scheduler's inputs and outputs
    sumRaw, steps, withinClamp,
    \* SpaceScene and its planets
    sceneTime, orbitPos, groupPos,
    lastTick,       \* history: the keys, modes and camera pose at the start of the
                    \* latest logic update
    \* CameraController, the camera and the OrbitControls it drives
    camPos, ocTarget, ocEnabled, isAnimating, followTarget, followOffset,
    controlMode, wasdEnabled, presets,
    anim,           \* the closure of the animate() callback of animateToPosition
    rafAnimate,     \* number of requestAnimationFrame(animate) callbacks pending
    lastRequest,    \* history: the latest animateToPosition call and the pose at the call
    resolved,       \* number of resolve() calls of the promise of the transition in anim
    lastResolve,    \* history: the latest resolve() call of any promise, and the pose at it
    lastCall,       \* history: the latest animateToPreset / animateToPosition /
                    \* followObject call, and whether it ended in an exception
    callerArrays,   \* the arrays a caller of addPreset owns and passes to it
    registered,     \* history: the values addPreset was given for each name
    \* SpaceScene's selection and the planets' isSelected flags
    selectedPlanet, isSelected,
    infoPanel,      \* the element with id planet-info, if the document has one
    removalPending, \* a setTimeout of hidePlanetInfo is waiting to remove that element
    calls,          \* the setSelected calls of the latest click, in order
    lastClick,      \* history: the latest click's ray and the selection before it
    \* UIManager
    helpDisplay,    \* style.display of the element with id help-panel, or "absent"
    hPresses,       \* history: the KeyH keydown events since the start or the last Escape
    \* InputManager
    keys

loopVars  == <<isRunning, lastTime, accumulator, frameTime, updateCallback,
               renderCallback, rafLoop, pc, frameLog>>
histVars  == <<sumRaw, steps, withinClamp>>
sceneVars == <<sceneTime, orbitPos, groupPos, lastTick>>
camVars   == <<camPos, ocTarget, ocEnabled, isAnimating, followTarget, followOffset,
               controlMode, wasdEnabled, presets, anim, rafAnimate, lastRequest,
               resolved, lastResolve, lastCall, callerArrays, registered>>
pickVars  == <<selectedPlanet, isSelected, infoPanel, removalPending, calls, lastClick>>
uiVars    == <<helpDisplay, hPresses>>
vars == <<now, loopVars, histVars, sceneVars, camVars, keys, pickVars, uiVars>>

(***************************************************************************)
(* Units and bounds                                                         *)
(***************************************************************************)
UnitsPerMs == 3
UnitsPerSecond == 1000 * UnitsPerMs
PosScale == 60
Permille == 1000

\* bounds of the scheduler specification
MaxNow == 200
MaxPending == 2
MaxSteps == 12
\* bounds of the camera specification
MaxClock == 6000
MaxSceneTime == 50
MaxKeysHeld == 2

Min(a, b) == IF a < b THEN a ELSE b
Max(a, b) == IF a > b THEN a ELSE b

\* THREE.Vector3 as a triple
Vec(x, y, z) == <<x, y, z>>
VAdd(a, b) == <<a[1] + b[1], a[2] + b[2], a[3] + b[3]>>
VSub(a, b) == <<a[1] - b[1], a[2] - b[2], a[3] - b[3]>>
VScaleDiv(a, n, d) == <<(a[1] * n) \div d, (a[2] * n) \div d, (a[3] * n) \div d>>
VDot(a, b) == a[1] * b[1] + a[2] * b[2] + a[3] * b[3]
Zero3 == <<0, 0, 0>>
World(x, y, z) == <<x * PosScale, y * PosScale, z * PosScale>>

(***************************************************************************)
(* Planet and SpaceScene                                                    *)
(***************************************************************************)
\* The bodies of the scene.  An angle is orbit.speed * totalTime; AngleQuantum
\* of it is one eighth of a turn, and cos/sin are tabulated per eighth.
Planets == 1..3
AngleQuantum == 50
CosTable == <<1000, 707, 0, -707, -1000, -707, 0, 707>>
Cos(angle) == CosTable[((angle \div AngleQuantum) % 8) + 1]
Sin(angle) == CosTable[(((angle \div AngleQuantum) + 6) % 8) + 1]

\* planetConfigs: the star has no orbit descriptor
PlanetConfig(p) ==
    CASE p = 1 -> [name |-> "Sun",   position |-> World(0, 0, 0),  hasOrbit |-> FALSE,
                   orbit |-> [radius |-> 0, speed |-> 0]]
      [] p = 2 -> [name |-> "Earth", position |-> World(45, 0, 0), hasOrbit |-> TRUE,
                   orbit |-> [radius |-> 45 * PosScale, speed |-> 1]]
      [] p = 3 -> [name |-> "Mars",  position |-> World(60, 0, 0), hasOrbit |-> TRUE,
                   orbit |-> [radius |-> 60 * PosScale, speed |-> 3]]

\* Planet.setPosition, as called by the constructor: <<group, orbitGroup>> positions
SetPosition(p) ==
    IF PlanetConfig(p).hasOrbit
      THEN [group |-> Zero3, orbitGroup |-> PlanetConfig(p).position]
      ELSE [group |-> PlanetConfig(p).position, orbitGroup |-> Zero3]

\* Planet.update with the angle taken from the step instead of the total time
PlanetUpdateByDelta(p, pos, deltaTime, totalTime) ==
    IF PlanetConfig(p).hasOrbit
      THEN Vec((Cos(deltaTime * PlanetConfig(p).orbit.speed) * PlanetConfig(p).orbit.radius)
                  \div Permille,
               0,
               (Sin(deltaTime * PlanetConfig(p).orbit.speed) * PlanetConfig(p).orbit.radius)
                  \div Permille)
      ELSE pos

\* Planet.update with lines 332-335 outside the test of this.orbit: a body
\* without a descriptor is moved round a small circle
PlanetUpdateUnguarded(p, pos, deltaTime, totalTime) ==
    IF PlanetConfig(p).hasOrbit
      THEN Vec((Cos(totalTime * PlanetConfig(p).orbit.speed) * PlanetConfig(p).orbit.radius)
                  \div Permille,
               0,
               (Sin(totalTime * PlanetConfig(p).orbit.speed) * PlanetConfig(p).orbit.radius)
                  \div Permille)
      ELSE Vec(Cos(totalTime), 0, Sin(totalTime))

\* Planet.update: the new position of the orbit group
PlanetUpdate(p, pos, deltaTime, totalTime) ==
    IF PlanetConfig(p).hasOrbit
      THEN LET angle == totalTime * PlanetConfig(p).orbit.speed
               x == (Cos(angle) * PlanetConfig(p).orbit.radius) \div Permille
               z == (Sin(angle) * PlanetConfig(p).orbit.radius) \div Permille
           IN  Vec(x, 0, z)
      ELSE pos

\* SpaceScene.update with `this.time = deltaTime` for line 1319
SceneUpdateAssign(deltaTime) ==
    /\ sceneTime' = deltaTime
    /\ orbitPos' = [p \in Planets |-> PlanetUpdate(p, orbitPos[p], deltaTime, deltaTime)]
    /\ groupPos' = groupPos

\* SpaceScene.update
SceneUpdate(deltaTime) ==
    /\ sceneTime' = sceneTime + deltaTime
    /\ orbitPos' = [p \in Planets |->
                      PlanetUpdate(p, orbitPos[p], deltaTime, sceneTime + deltaTime)]
    /\ groupPos' = groupPos

\* Object3D.getWorldPosition of a body's mesh: group, then orbit group
WorldPosition(p) == VAdd(groupPos[p], orbitPos[p])

(***************************************************************************)
(* InputManager                                                             *)
(***************************************************************************)
MoveKeys == {"KeyW", "KeyA", "KeyS", "KeyD", "Space", "ControlLeft", "ShiftLeft"}
HotKeys == {"KeyC", "KeyV", "Digit1", "Digit2"}
Keys == MoveKeys \cup HotKeys

IsKeyPressed(ks, keyCode) == keyCode \in ks

GetWASDState(ks) ==
    [w |-> IsKeyPressed(ks, "KeyW"), a |-> IsKeyPressed(ks, "KeyA"),
     s |-> IsKeyPressed(ks, "KeyS"), d |-> IsKeyPressed(ks, "KeyD")]

\* reading a property of a JavaScript object: a missing one is undefined, which
\* is falsy in a condition
Prop(obj, name) == IF name \in DOMAIN obj THEN obj[name] ELSE FALSE

(***************************************************************************)
(* CameraController                                                         *)
(***************************************************************************)
MoveSpeed == 50
FastMoveMultiplier == 3
AnimationDuration == 2000 * UnitsPerMs
FollowSpeed == 20           \* 0.02, in Permille
HasInputManager == TRUE     \* main.js passes its InputManager to the constructor

\* An array held by the presets table is its own array (ref = 0, with the
\* elements it was made with) or, were it stored uncopied, the caller's array
\* with id ref.
Literal(elems) == [ref |-> 0, elems |-> elems]

InitialPresets ==
    [n \in {"overview", "sun", "earth", "saturn"} |->
       CASE n = "overview" -> [position |-> Literal(<<0, 100, 200>>),
                               target |-> Literal(<<0, 0, 0>>)]
         [] n = "sun"      -> [position |-> Literal(<<0, 20, 50>>),
                               target |-> Literal(<<0, 0, 0>>)]
         [] n = "earth"    -> [position |-> Literal(<<45, 10, 20>>),
                               target |-> Literal(<<45, 0, 0>>)]
         [] n = "saturn"   -> [position |-> Literal(<<110, 30, 60>>),
                               target |-> Literal(<<110, 0, 0>>)]]

\* the arrays a caller of addPreset holds: those of the README's example
ArrayIds == 1..2
ExampleArrays == [i \in ArrayIds |-> IF i = 1 THEN <<100, 50, 100>> ELSE <<0, 0, 0>>]

\* the elements read from an array of the table, with the caller's arrays as
\* they are at the time of the read
ElementsOf(arrays, arr) == IF arr.ref = 0 THEN arr.elems ELSE arrays[arr.ref]
PoseOf(table, arrays, n) ==
    [position |-> ElementsOf(arrays, table[n].position),
     target |-> ElementsOf(arrays, table[n].target)]

\* storing the caller's array itself
SpreadAlias(arrays, id) == [ref |-> id, elems |-> arrays[id]]

\* [...position]: a new array with the elements the caller's array has now
Spread(arrays, id) == [ref |-> 0, elems |-> arrays[id]]

\* this.presets[presetName] on an object literal: an own property, or one
\* inherited from Object.prototype (a function, truthy, without a position),
\* or undefined
InheritedNames == {"constructor", "toString"}
Lookup(table, name) ==
    IF name \in DOMAIN table THEN "preset"
    ELSE IF name \in InheritedNames THEN "inherited" ELSE "undefined"

\* the record of a call in the history
Called(op, name, target, threw) ==
    lastCall' = [op |-> op, name |-> name, target |-> target, threw |-> threw]

\* new THREE.Vector3(...preset.position)
Vector3(arr) == World(arr[1], arr[2], arr[3])

\* OrbitControls.update(): three.js code, outside the repository.  With no
\* pointer drag in progress and the camera within minDistance..maxDistance of
\* the target it re-aims the camera and leaves both positions as they are.
OrbitControlsUpdate(pose) == pose

\* The camera's orientation is the one OrbitControls gave it: looking at the
\* target.  The quaternion is reduced to the nearest axis direction.
Abs(x) == IF x < 0 THEN -x ELSE x
Sign(x) == IF x < 0 THEN -1 ELSE 1
AxisOf(d) ==
    IF Abs(d[3]) >= Abs(d[1]) /\ Abs(d[3]) >= Abs(d[2]) THEN Vec(0, 0, Sign(d[3]))
    ELSE IF Abs(d[1]) >= Abs(d[2]) THEN Vec(Sign(d[1]), 0, 0)
    ELSE Vec(0, Sign(d[2]), 0)
\* (0, 0, -1) and (1, 0, 0) turned by camera.quaternion
CameraForward(pos, tgt) == AxisOf(VSub(tgt, pos))
RightOf(f) == IF f[2] # 0 THEN Vec(1, 0, 0) ELSE Vec(-f[3], 0, f[1])
CameraRight(pos, tgt) == RightOf(CameraForward(pos, tgt))

\* Math.sqrt, rounded down: bisection between lo and hi
RECURSIVE Bisect(_, _, _)
Bisect(n, lo, hi) ==
    IF hi - lo <= 1 THEN lo
    ELSE IF ((lo + hi) \div 2) * ((lo + hi) \div 2) <= n
           THEN Bisect(n, (lo + hi) \div 2, hi)
           ELSE Bisect(n, lo, (lo + hi) \div 2)
ISqrt(n) == Bisect(n, 0, 4096)
\* Vector3.normalize: a unit vector has length Permille
Normalize(v) == VScaleDiv(v, Permille * Permille, ISqrt(VDot(v, v) * Permille * Permille))

\* direction.add(v) where the code has direction.sub(v)
TermAdded(cond, v, sgn) == IF cond THEN v ELSE Zero3

\* direction.add(v) or direction.sub(v) under its condition
Term(cond, v, sgn) == IF cond THEN <<sgn * v[1], sgn * v[2], sgn * v[3]>> ELSE Zero3

\* updateWASDMovement, lines 116-126: the direction composed from the flags
Compose(wasdState, isSpacePressed, isCtrlPressed, forward, right, up) ==
    VAdd(VAdd(VAdd(Term(Prop(wasdState, "forward"), forward, 1),
                   Term(Prop(wasdState, "backward"), forward, -1)),
              VAdd(Term(Prop(wasdState, "left"), right, -1),
                   Term(Prop(wasdState, "right"), right, 1))),
         VAdd(Term(isSpacePressed, up, 1), Term(isCtrlPressed, up, -1)))

\* updateWASDMovement, lines 101-126
Direction(ks, pos, tgt) ==
    Compose(GetWASDState(ks),
            IsKeyPressed(ks, "Space"),
            IsKeyPressed(ks, "ControlLeft") \/ IsKeyPressed(ks, "ControlRight"),
            CameraForward(pos, tgt), CameraRight(pos, tgt), Vec(0, 1, 0))

\* the speed without lines 133-135
CurrentSpeedNoShift(ks) == MoveSpeed

\* lines 132-135
CurrentSpeed(ks) ==
    IF IsKeyPressed(ks, "ShiftLeft") \/ IsKeyPressed(ks, "ShiftRight")
      THEN MoveSpeed * FastMoveMultiplier ELSE MoveSpeed

\* lines 129-138: the displacement along direction at currentSpeed for deltaTime
Scaled(direction, currentSpeed, deltaTime) ==
    IF direction # Zero3
      THEN VScaleDiv(Normalize(direction),
                     (currentSpeed * deltaTime * PosScale) \div UnitsPerSecond, Permille)
      ELSE Zero3

\* updateWASDMovement: the displacement of one logic tick
Movement(ks, pos, tgt, deltaTime) ==
    Scaled(Direction(ks, pos, tgt), CurrentSpeed(ks), deltaTime)

\* lines 139-144 without the branch of line 142: the target is moved in
\* every mode
MovedInEveryMode(pose, movement) ==
    [position |-> VAdd(pose.position, movement),
     target |-> VAdd(pose.target, movement)]

\* lines 139-144
Moved(pose, movement) ==
    [position |-> VAdd(pose.position, movement),
     target |-> IF controlMode = "orbit" THEN VAdd(pose.target, movement)
                ELSE pose.target]

\* updateWASDMovement: the pose after it
UpdateWASDMovement(pose, deltaTime) ==
    Moved(pose, Movement(keys, pose.position, pose.target, deltaTime))

\* Vector3.lerp and lerpVectors with alpha in Permille
Lerp(a, b, alpha) == VAdd(a, VScaleDiv(VSub(b, a), alpha, Permille))

\* updateFollowTarget, lines 259-267
FollowToward(pose, targetWorldPosition) ==
    OrbitControlsUpdate(
      [position |-> Lerp(pose.position, VAdd(targetWorldPosition, followOffset), FollowSpeed),
       target |-> Lerp(pose.target, targetWorldPosition, FollowSpeed)])

\* updateFollowTarget
UpdateFollowTarget(pose) == FollowToward(pose, WorldPosition(followTarget))

\* CameraController.update, its three steps
WASDStep(pose, deltaTime) ==
    IF wasdEnabled /\ HasInputManager THEN UpdateWASDMovement(pose, deltaTime) ELSE pose
\* the follow step without the test of isAnimating
FollowStepWhileAnimating(pose) ==
    IF followTarget # 0 THEN UpdateFollowTarget(pose) ELSE pose
FollowStep(pose) ==
    IF followTarget # 0 /\ ~isAnimating THEN UpdateFollowTarget(pose) ELSE pose
OrbitStep(pose) ==
    IF controlMode = "orbit" THEN OrbitControlsUpdate(pose) ELSE pose

SetPose(pose) == camPos' = pose.position /\ ocTarget' = pose.target

\* CameraController.update
CameraUpdate(deltaTime) ==
    SetPose(OrbitStep(FollowStep(WASDStep([position |-> camPos, target |-> ocTarget],
                                          deltaTime))))

\* easeInOutCubic with the "+ 1" of its second branch left out
EaseInOutCubicNoOffset(t) ==
    IF 2 * t < Permille
      THEN (4 * t * t * t) \div (Permille * Permille)
      ELSE ((t - Permille) * (2 * t - 2 * Permille) * (2 * t - 2 * Permille))
              \div (Permille * Permille)

\* easeInOutCubic on Permille fractions
EaseInOutCubic(t) ==
    IF 2 * t < Permille
      THEN (4 * t * t * t) \div (Permille * Permille)
      ELSE ((t - Permille) * (2 * t - 2 * Permille) * (2 * t - 2 * Permille))
              \div (Permille * Permille) + Permille

\* lines 188-189: the progress of animate() at time t
Progress(a, t) == Min(((t - a.startTime) * Permille) \div AnimationDuration, Permille)

\* lines 195-201: the pose animate() sets
Interpolated(a, easeProgress) ==
    OrbitControlsUpdate(
      [position |-> Lerp(a.startPosition, a.targetPosition, easeProgress),
       target |-> Lerp(a.startTarget, a.targetLookAt, easeProgress)])

\* lines 203-208: another frame, or the end of the transition
Continue(progress, pending) ==
    IF progress < Permille
      THEN isAnimating' = TRUE /\ rafAnimate' = pending + 1
      ELSE isAnimating' = FALSE /\ rafAnimate' = pending

\* line 207: resolve() at the end of the transition, after `count` earlier
\* calls of it
Settle(a, progress, count) ==
    IF progress < Permille
      THEN resolved' = count /\ UNCHANGED lastResolve
      ELSE /\ resolved' = count + 1
           /\ lastResolve' = [position |-> a.targetPosition, target |-> a.targetLookAt,
                              camAt |-> camPos', targetAt |-> ocTarget', fired |-> TRUE]

\* one run of the animate() closure a at time t, with `pending` other animate
\* callbacks waiting and `count` earlier calls of its resolve()
Animate(a, t, pending, count) ==
    /\ SetPose(Interpolated(a, EaseInOutCubic(Progress(a, t))))
    /\ Continue(Progress(a, t), pending)
    /\ Settle(a, Progress(a, t), count)

\* stopFollowing that leaves the target in place
StopFollowingKept(target) == target

\* stopFollowing, lines 242-245: the follow target after the call
StopFollowingFrom(target) == IF target # 0 THEN 0 ELSE target

\* animateToPosition: refused while a transition is in flight
AnimateToPosition(targetPosition, targetLookAt) ==
    /\ pc = "idle"
    /\ lastRequest' = [position |-> targetPosition, target |-> targetLookAt,
                       camAt |-> camPos, targetAt |-> ocTarget,
                       following |-> followTarget, started |-> ~isAnimating]
    /\ IF isAnimating
         THEN /\ lastResolve' = [position |-> targetPosition, target |-> targetLookAt,
                                 camAt |-> camPos, targetAt |-> ocTarget, fired |-> TRUE]
              /\ UNCHANGED <<camPos, ocTarget, isAnimating, followTarget, anim, rafAnimate,
                             resolved>>
         ELSE LET a == [startPosition |-> camPos, startTarget |-> ocTarget,
                        targetPosition |-> targetPosition, targetLookAt |-> targetLookAt,
                        startTime |-> now]
              IN  /\ followTarget' = StopFollowingFrom(followTarget)
                  /\ anim' = a
                  /\ Animate(a, now, rafAnimate, 0)
    /\ UNCHANGED <<ocEnabled, followOffset, controlMode, wasdEnabled, presets,
                   callerArrays, registered>>

\* animateToPreset: lines 154-158, then line 160 with a preset, or the
\* TypeError of spreading the missing position of an inherited property
AnimateToPreset(presetName) ==
    CASE Lookup(presets, presetName) = "preset" ->
           /\ AnimateToPosition(Vector3(PoseOf(presets, callerArrays, presetName).position),
                                Vector3(PoseOf(presets, callerArrays, presetName).target))
           /\ Called("animateToPreset", presetName, 0, FALSE)
      [] Lookup(presets, presetName) = "inherited" ->
           /\ pc = "idle"
           /\ Called("animateToPreset", presetName, 0, TRUE)
           /\ UNCHANGED <<camPos, ocTarget, ocEnabled, isAnimating, followTarget,
                          followOffset, controlMode, wasdEnabled, presets, anim,
                          rafAnimate, lastRequest, resolved, lastResolve, callerArrays,
                          registered>>
      [] OTHER ->
           /\ pc = "idle"
           /\ Called("animateToPreset", presetName, 0, FALSE)
           /\ UNCHANGED <<camPos, ocTarget, ocEnabled, isAnimating, followTarget,
                          followOffset, controlMode, wasdEnabled, presets, anim,
                          rafAnimate, lastRequest, resolved, lastResolve, callerArrays,
                          registered>>

\* addPreset(name, position, target), the two arrays being the caller's
AddPreset(name, position, target) ==
    /\ pc = "idle"
    /\ presets' = [n \in DOMAIN presets \cup {name} |->
                     IF n = name THEN [position |-> Spread(callerArrays, position),
                                       target |-> Spread(callerArrays, target)]
                                 ELSE presets[n]]
    /\ registered' = [n \in DOMAIN presets \cup {name} |->
                        IF n = name THEN [position |-> callerArrays[position],
                                          target |-> callerArrays[target]]
                                    ELSE registered[n]]
    /\ UNCHANGED <<camPos, ocTarget, ocEnabled, isAnimating, followTarget, followOffset,
                   controlMode, wasdEnabled, anim, rafAnimate, lastRequest, resolved,
                   lastResolve, lastCall, callerArrays>>
    /\ UNCHANGED <<now, loopVars, histVars, sceneVars, keys, pickVars, uiVars>>

\* the caller writes to one of its arrays
MutateArray(id, elems) ==
    /\ pc = "idle"
    /\ callerArrays' = [callerArrays EXCEPT ![id] = elems]
    /\ UNCHANGED <<camPos, ocTarget, ocEnabled, isAnimating, followTarget, followOffset,
                   controlMode, wasdEnabled, presets, anim, rafAnimate, lastRequest,
                   resolved, lastResolve, lastCall, registered>>
    /\ UNCHANGED <<now, loopVars, histVars, sceneVars, keys, pickVars, uiVars>>

\* a requestAnimationFrame(animate) callback runs
AnimateFrame ==
    /\ pc = "idle"
    /\ rafAnimate > 0
    /\ Animate(anim, now, rafAnimate - 1, resolved)
    /\ UNCHANGED <<ocEnabled, followTarget, followOffset, controlMode, wasdEnabled,
                   presets, anim, lastRequest, lastCall, callerArrays, registered>>
    /\ UNCHANGED <<now, loopVars, histVars, sceneVars, keys, pickVars, uiVars>>

\* followObject(target, offset) for a body of the scene; NoOffset is offset = null
NoOffset == <<>>
FollowObject(target, offset) ==
    /\ pc = "idle"
    /\ followTarget' = target
    /\ followOffset' = IF offset # NoOffset THEN offset ELSE followOffset
    /\ Called("followObject", "", target, target = 0)
    /\ UNCHANGED <<camPos, ocTarget, ocEnabled, isAnimating, controlMode, wasdEnabled,
                   presets, anim, rafAnimate, lastRequest, resolved, lastResolve,
                   callerArrays, registered>>
    /\ UNCHANGED <<now, loopVars, histVars, sceneVars, keys, pickVars, uiVars>>

\* stopFollowing
StopFollowing ==
    /\ pc = "idle"
    /\ followTarget' = StopFollowingFrom(followTarget)
    /\ UNCHANGED <<camPos, ocTarget, ocEnabled, isAnimating, followOffset, controlMode,
                   wasdEnabled, presets, anim, rafAnimate, lastRequest, resolved, lastResolve,
                   lastCall, callerArrays, registered>>
    /\ UNCHANGED <<now, loopVars, histVars, sceneVars, keys, pickVars, uiVars>>

\* setControlMode without lines 47-51
SetControlModeOnly(mode) ==
    /\ controlMode' = mode
    /\ UNCHANGED <<camPos, ocTarget, ocEnabled, isAnimating, followTarget, followOffset,
                   wasdEnabled, presets, anim, rafAnimate, lastRequest, resolved,
                   lastResolve, lastCall, callerArrays, registered>>

\* setControlMode
SetControlMode(mode) ==
    /\ controlMode' = mode
    /\ ocEnabled' = (mode # "free")
    /\ UNCHANGED <<camPos, ocTarget, isAnimating, followTarget, followOffset, wasdEnabled,
                   presets, anim, rafAnimate, lastRequest, resolved, lastResolve,
                   lastCall, callerArrays, registered>>

\* setWASDEnabled
SetWASDEnabled(enabled) ==
    /\ wasdEnabled' = enabled
    /\ UNCHANGED <<camPos, ocTarget, ocEnabled, isAnimating, followTarget, followOffset,
                   controlMode, presets, anim, rafAnimate, lastRequest, resolved, lastResolve,
                   lastCall, callerArrays, registered>>

(***************************************************************************)
(* SpaceGameApp                                                             *)
(***************************************************************************)
\* the keyDown callback of setupHotkeys
Hotkey(keyCode) ==
    CASE keyCode = "KeyC" -> SetControlMode(IF controlMode = "orbit" THEN "free" ELSE "orbit")
      [] keyCode = "KeyV" -> SetWASDEnabled(~wasdEnabled)
      [] keyCode = "Digit1" -> AnimateToPreset("overview")
      [] keyCode = "Digit2" -> AnimateToPreset("sun")
      [] keyCode = "Digit3" -> AnimateToPreset("earth")
      [] keyCode = "Digit4" -> AnimateToPreset("saturn")
      [] OTHER -> UNCHANGED camVars

\* InputManager.handleKeyDown: the key is held, then the callbacks run
KeyDown(keyCode) ==
    /\ pc = "idle"
    /\ Cardinality(keys \cup {keyCode}) <= MaxKeysHeld
    /\ keys' = keys \cup {keyCode}
    /\ Hotkey(keyCode)
    /\ UNCHANGED <<now, loopVars, histVars, sceneVars, pickVars, uiVars>>

\* InputManager.handleKeyUp
KeyUp(keyCode) ==
    /\ pc = "idle"
    /\ keyCode \in keys
    /\ keys' = keys \ {keyCode}
    /\ UNCHANGED <<now, loopVars, histVars, sceneVars, camVars, pickVars, uiVars>>

\* InputManager.resetInput, on the window's blur event
ResetInput ==
    /\ pc = "idle"
    /\ keys' = {}
    /\ UNCHANGED <<now, loopVars, histVars, sceneVars, camVars, pickVars, uiVars>>

\* SpaceGameApp.update: the camera first, then the scene
AppUpdate(deltaTime) ==
    /\ lastTick' = [keys |-> keys, wasdEnabled |-> wasdEnabled, controlMode |-> controlMode,
                    following |-> followTarget, animating |-> isAnimating,
                    position |-> camPos, target |-> ocTarget]
    /\ CameraUpdate(deltaTime)
    /\ SceneUpdate(deltaTime)
    /\ UNCHANGED <<ocEnabled, isAnimating, followTarget, followOffset, controlMode,
                   wasdEnabled, presets, anim, rafAnimate, lastRequest, resolved,
                   lastResolve, lastCall, callerArrays, registered, keys,
                   pickVars, uiVars>>

(***************************************************************************)
(* SpaceScene: picking and selection                                        *)
(***************************************************************************)
HasCamera == TRUE           \* main.js calls setCamera before the first click

\* Planet.createPlanet: Earth and Mars get an atmosphere shell
HasAtmosphere(p) == p \in {2, 3}

\* A pick ray, by the bodies it passes in order of distance from a camera
\* outside them.  `part` is the innermost sphere of the body the ray enters:
\* the planet mesh (radius r), its atmosphere child (1.05 r) or its
\* selectionGlow child (1.2 r).
Parts(p) == IF HasAtmosphere(p) THEN {"mesh", "atmosphere", "selectionGlow"}
                                ELSE {"mesh", "selectionGlow"}
Crossings == {c \in [planet : Planets, part : {"mesh", "atmosphere", "selectionGlow"}] :
                c.part \in Parts(c.planet)}
MaxCrossings == 2
Rays == UNION {{r \in [1..n -> Crossings] :
                   \A i, j \in 1..n : i # j => r[i].planet # r[j].planet} :
               n \in 0..MaxCrossings}

Hit(p, object) == [planet |-> p, object |-> object]

\* the faces of one body the ray intersects, nearest first: the front face of
\* the mesh, then the back faces of the BackSide children
HitsOf(c) ==
    (IF c.part = "mesh" THEN <<Hit(c.planet, "mesh")>> ELSE <<>>)
    \o (IF HasAtmosphere(c.planet) /\ c.part # "selectionGlow"
          THEN <<Hit(c.planet, "atmosphere")>> ELSE <<>>)
    \o <<Hit(c.planet, "selectionGlow")>>

\* raycaster.intersectObjects(planetMeshes): the meshes and, recursively,
\* their children; the hits sorted by distance
RECURSIVE IntersectObjects(_)
IntersectObjects(ray) ==
    IF ray = <<>> THEN <<>> ELSE HitsOf(Head(ray)) \o IntersectObjects(Tail(ray))

\* this.planets.find(planet => planet.getMesh() === object); 0 is undefined
FindPlanet(hit) == IF hit.object = "mesh" THEN hit.planet ELSE 0

NoPanel == [present |-> FALSE, opacity |-> 0, planet |-> 0]

\* the scene's selection state, as the methods below transform it
Selection == [selectedPlanet |-> selectedPlanet, isSelected |-> isSelected,
              infoPanel |-> infoPanel, removalPending |-> removalPending, calls |-> <<>>]

\* Planet.setSelected
SetSelected(s, planet, selected) ==
    [s EXCEPT !.isSelected[planet] = selected,
              !.calls = Append(@, [planet |-> planet, selected |-> selected])]

\* hidePlanetInfo
HidePlanetInfo(s) ==
    IF s.infoPanel.present
      THEN [s EXCEPT !.infoPanel.opacity = 0, !.removalPending = TRUE]
      ELSE s

\* showPlanetInfo
ShowPlanetInfo(s, planet) ==
    [s EXCEPT !.infoPanel = [present |-> TRUE, opacity |-> 1, planet |-> planet]]

\* lines 848-851 of deselectPlanet
ClearSelected(s) ==
    IF s.selectedPlanet # 0
      THEN [SetSelected(s, s.selectedPlanet, FALSE) EXCEPT !.selectedPlanet = 0]
      ELSE s

\* deselectPlanet
DeselectPlanet(s) == HidePlanetInfo(ClearSelected(s))

\* selectPlanet without the deselection of the previous planet
SelectPlanetKeepPrevious(s, planet) ==
    ShowPlanetInfo(SetSelected([s EXCEPT !.selectedPlanet = planet], planet, TRUE), planet)

\* selectPlanet
SelectPlanet(s, planet) ==
    ShowPlanetInfo(SetSelected([DeselectPlanet(s) EXCEPT !.selectedPlanet = planet],
                               planet, TRUE), planet)

\* lines 814-821 of onMouseClick
Picked(s, intersects) ==
    IF Len(intersects) > 0
      THEN IF FindPlanet(intersects[1]) # 0
             THEN SelectPlanet(s, FindPlanet(intersects[1]))
             ELSE s
      ELSE DeselectPlanet(s)

SetSelection(s) ==
    /\ selectedPlanet' = s.selectedPlanet
    /\ isSelected' = s.isSelected
    /\ infoPanel' = s.infoPanel
    /\ removalPending' = s.removalPending
    /\ calls' = s.calls

\* onMouseClick, for a click whose pick ray is `ray`
OnMouseClick(ray) ==
    /\ pc = "idle"
    /\ IF HasCamera
         THEN /\ SetSelection(Picked(Selection, IntersectObjects(ray)))
              /\ lastClick' = [ray |-> ray, before |-> selectedPlanet, made |-> TRUE]
         ELSE UNCHANGED pickVars
    /\ UNCHANGED <<now, loopVars, histVars, sceneVars, camVars, keys, uiVars>>

\* the setTimeout callback of hidePlanetInfo, 300 ms after it.  Every timer
\* waiting holds the one element the document has (a new element is created
\* only when there is none), so the first to fire removes it and the others
\* find it without a parent: one flag stands for all of them.
RemovePanel ==
    /\ pc = "idle"
    /\ removalPending
    /\ removalPending' = FALSE
    /\ infoPanel' = IF infoPanel.present THEN NoPanel ELSE infoPanel
    /\ UNCHANGED <<selectedPlanet, isSelected, calls, lastClick>>
    /\ UNCHANGED <<now, loopVars, histVars, sceneVars, camVars, keys, uiVars>>

(***************************************************************************)
(* UIManager: the help panel                                                *)
(***************************************************************************)
MaxPresses == 3

\* lines 525-528 of toggleHelp: the panel is created if the document has none;
\* a new element's style.display is the empty string
Created(display) == IF display = "absent" THEN "" ELSE display

\* toggleHelp: line 530 on the panel found or created
ToggleHelp(display) == IF Created(display) = "none" THEN "block" ELSE "none"

\* hideAllPanels
HideAllPanels(display) == IF display # "absent" THEN "none" ELSE display

\* handleKeyPress, on a keydown event of the document
HandleKeyPress(code) ==
    /\ pc = "idle"
    /\ CASE code = "KeyH" -> /\ hPresses < MaxPresses
                             /\ helpDisplay' = ToggleHelp(helpDisplay)
                             /\ hPresses' = hPresses + 1
         [] code = "Escape" -> /\ helpDisplay' = HideAllPanels(helpDisplay)
                               /\ hPresses' = 0
         [] OTHER -> UNCHANGED uiVars
    /\ UNCHANGED <<now, loopVars, histVars, sceneVars, camVars, keys, pickVars>>

(***************************************************************************)
(* GameLoop                                                                 *)
(***************************************************************************)
MaxDelta == 50 * UnitsPerMs
TargetFPS == 60

\* the frame delta without the clamp
ClampDeltaNone(deltaTime) == deltaTime

\* the frame delta after line 715
ClampDelta(deltaTime) == Min(deltaTime, MaxDelta)

\* the while loop with > for >=
CatchUpStrict(acc, ft) == acc > ft

\* the condition of the while loop, line 720
CatchUp(acc, ft) == acc >= ft

\* the accumulator emptied instead of reduced by one step
DrainReset(acc, ft) == 0

\* the accumulator after one update, line 724
Drain(acc, ft) == acc - ft

\* what the update callback is given, line 722: frameTime / 1000 seconds
UpdateArg(ft, deltaTime) == ft

\* start(update, render): a callback is a function (TRUE) or null (FALSE)
StartWith(update, render) ==
    /\ pc = "idle"
    /\ rafLoop < MaxPending
    /\ IF isRunning
         THEN UNCHANGED <<updateCallback, renderCallback, isRunning, lastTime, rafLoop>>
         ELSE /\ updateCallback' = update
              /\ renderCallback' = render
              /\ isRunning' = TRUE
              /\ lastTime' = now
              /\ rafLoop' = rafLoop + 1
    /\ UNCHANGED <<accumulator, frameTime, pc, frameLog>>
    /\ UNCHANGED <<now, histVars, sceneVars, camVars, keys, pickVars, uiVars>>

\* start(updateCallback, renderCallback), as main.js calls it
Start == StartWith(TRUE, TRUE)

\* stop()
Stop ==
    /\ pc = "idle"
    /\ isRunning' = FALSE
    /\ UNCHANGED <<lastTime, accumulator, frameTime, updateCallback, renderCallback,
                   rafLoop, pc, frameLog>>
    /\ UNCHANGED <<now, histVars, sceneVars, camVars, keys, pickVars, uiVars>>

\* loop(timestamp), lines 708-717: a frame callback runs up to the while loop
LoopBegin ==
    /\ pc = "idle"
    /\ rafLoop > 0
    /\ IF ~isRunning
         THEN /\ rafLoop' = rafLoop - 1
              /\ UNCHANGED <<lastTime, accumulator, pc, frameLog, histVars>>
         ELSE LET deltaTime == now - lastTime
              IN  /\ rafLoop' = rafLoop - 1
                  /\ lastTime' = now
                  /\ accumulator' = accumulator + ClampDelta(deltaTime)
                  /\ pc' = "while"
                  /\ frameLog' = <<[ev |-> "frame", dt |-> deltaTime]>>
                  /\ sumRaw' = sumRaw + deltaTime
                  /\ withinClamp' = (withinClamp /\ deltaTime <= MaxDelta)
                  /\ steps' = steps
    /\ UNCHANGED <<isRunning, frameTime, updateCallback, renderCallback>>
    /\ UNCHANGED <<now, sceneVars, camVars, keys, pickVars, uiVars>>

\* one turn of the while loop with the render callback inside it
LoopUpdateThenRender ==
    /\ pc = "while"
    /\ CatchUp(accumulator, frameTime)
    /\ IF updateCallback
         THEN AppUpdate(UpdateArg(frameTime, frameLog[1].dt))
         ELSE UNCHANGED <<sceneVars, camVars, keys, pickVars, uiVars>>
    /\ frameLog' = frameLog \o <<[ev |-> "update", dt |-> UpdateArg(frameTime, frameLog[1].dt)],
                                [ev |-> "render", dt |-> 0]>>
    /\ accumulator' = Drain(accumulator, frameTime)
    /\ steps' = steps + 1
    /\ UNCHANGED <<isRunning, lastTime, frameTime, updateCallback, renderCallback,
                   rafLoop, pc>>
    /\ UNCHANGED <<now, sumRaw, withinClamp>>

\* loop, lines 720-725: one turn of the while loop
LoopUpdate ==
    /\ pc = "while"
    /\ CatchUp(accumulator, frameTime)
    /\ LET arg == UpdateArg(frameTime, frameLog[1].dt)
       IN  /\ IF updateCallback
                THEN AppUpdate(arg)
                ELSE UNCHANGED <<sceneVars, camVars, keys, pickVars, uiVars>>
           /\ frameLog' = IF updateCallback
                            THEN Append(frameLog, [ev |-> "update", dt |-> arg])
                            ELSE frameLog
    /\ accumulator' = Drain(accumulator, frameTime)
    /\ steps' = steps + 1
    /\ UNCHANGED <<isRunning, lastTime, frameTime, updateCallback, renderCallback,
                   rafLoop, pc>>
    /\ UNCHANGED <<now, sumRaw, withinClamp>>

\* the end of the frame, rendering only when the frame had an update
LoopRenderIfUpdated ==
    /\ pc = "while"
    /\ ~CatchUp(accumulator, frameTime)
    /\ frameLog' = IF renderCallback /\ Len(frameLog) > 1
                     THEN Append(frameLog, [ev |-> "render", dt |-> 0])
                     ELSE frameLog
    /\ rafLoop' = rafLoop + 1
    /\ pc' = "idle"
    /\ UNCHANGED <<isRunning, lastTime, accumulator, frameTime, updateCallback,
                   renderCallback>>
    /\ UNCHANGED <<now, histVars, sceneVars, camVars, keys, pickVars, uiVars>>

\* the end of the frame, asking for the next frame only when there is a render
\* callback
LoopRenderNeedsCallback ==
    /\ pc = "while"
    /\ ~CatchUp(accumulator, frameTime)
    /\ frameLog' = IF renderCallback
                     THEN Append(frameLog, [ev |-> "render", dt |-> 0])
                     ELSE frameLog
    /\ rafLoop' = IF renderCallback THEN rafLoop + 1 ELSE rafLoop
    /\ pc' = "idle"
    /\ UNCHANGED <<isRunning, lastTime, accumulator, frameTime, updateCallback,
                   renderCallback>>
    /\ UNCHANGED <<now, histVars, sceneVars, camVars, keys, pickVars, uiVars>>

\* loop, lines 727-732: the render callback and the next frame's request
LoopRender ==
    /\ pc = "while"
    /\ ~CatchUp(accumulator, frameTime)
    /\ frameLog' = IF renderCallback
                     THEN Append(frameLog, [ev |-> "render", dt |-> 0])
                     ELSE frameLog
    /\ rafLoop' = rafLoop + 1
    /\ pc' = "idle"
    /\ UNCHANGED <<isRunning, lastTime, accumulator, frameTime, updateCallback,
                   renderCallback>>
    /\ UNCHANGED <<now, histVars, sceneVars, camVars, keys, pickVars, uiVars>>

\* 1000 / fps in the clock's unit, for a non-zero finite fps
FrameTimeOf(fps) ==
    IF fps > 0 THEN (1000 * UnitsPerMs) \div fps
               ELSE 0 - ((1000 * UnitsPerMs) \div (0 - fps))

\* setTargetFPS(fps): any number is taken
SetTargetFPS(fps) ==
    /\ pc = "idle"
    /\ frameTime' = FrameTimeOf(fps)
    /\ UNCHANGED <<isRunning, lastTime, accumulator, updateCallback, renderCallback,
                   rafLoop, pc, frameLog>>
    /\ UNCHANGED <<now, histVars, sceneVars, camVars, keys, pickVars, uiVars>>

(***************************************************************************)
(* Time, and the specifications                                             *)
(***************************************************************************)
\* time passes between two callbacks
Advance(d, limit) ==
    /\ pc = "idle"
    /\ now + d <= limit
    /\ now' = now + d
    /\ UNCHANGED <<loopVars, histVars, sceneVars, camVars, keys, pickVars, uiVars>>

Init ==
    /\ now = 0
    /\ isRunning = FALSE
    /\ lastTime = 0
    /\ accumulator = 0
    /\ frameTime = (1000 * UnitsPerMs) \div TargetFPS
    /\ updateCallback = FALSE
    /\ renderCallback = FALSE
    /\ rafLoop = 0
    /\ pc = "idle"
    /\ frameLog = <<>>
    /\ sumRaw = 0
    /\ steps = 0
    /\ withinClamp = TRUE
    /\ sceneTime = 0
    /\ lastTick = [keys |-> {}, wasdEnabled |-> TRUE, controlMode |-> "orbit",
                   following |-> 0, animating |-> FALSE,
                   position |-> Zero3, target |-> Zero3]
    /\ orbitPos = [p \in Planets |-> SetPosition(p).orbitGroup]
    /\ groupPos = [p \in Planets |-> SetPosition(p).group]
    /\ camPos = World(0, 50, 100)
    /\ ocTarget = Zero3
    /\ ocEnabled = TRUE
    /\ isAnimating = FALSE
    /\ followTarget = 0
    /\ followOffset = World(10, 10, 10)
    /\ controlMode = "orbit"
    /\ wasdEnabled = TRUE
    /\ presets = InitialPresets
    /\ anim = [startPosition |-> Zero3, startTarget |-> Zero3, targetPosition |-> Zero3,
               targetLookAt |-> Zero3, startTime |-> 0]
    /\ rafAnimate = 0
    /\ lastRequest = [position |-> Zero3, target |-> Zero3, camAt |-> Zero3,
                      targetAt |-> Zero3, following |-> 0, started |-> FALSE]
    /\ resolved = 0
    /\ lastResolve = [position |-> Zero3, target |-> Zero3, camAt |-> Zero3,
                      targetAt |-> Zero3, fired |-> FALSE]
    /\ lastCall = [op |-> "", name |-> "", target |-> 0, threw |-> FALSE]
    /\ callerArrays = ExampleArrays
    /\ registered = [n \in DOMAIN InitialPresets |-> PoseOf(InitialPresets, ExampleArrays, n)]
    /\ keys = {}
    /\ selectedPlanet = 0
    /\ isSelected = [p \in Planets |-> FALSE]
    /\ infoPanel = NoPanel
    /\ removalPending = FALSE
    /\ calls = <<>>
    /\ lastClick = [ray |-> <<>>, before |-> 0, made |-> FALSE]
    /\ helpDisplay = "absent"
    /\ hPresses = 0

\* The scheduler: frames arrive at any distance from each other
LoopDeltas == {20, 50, 170}
AdvanceLoop == \E d \in LoopDeltas : Advance(d, MaxNow)
NextLoop == AdvanceLoop \/ Start \/ Stop \/ LoopBegin \/ LoopUpdate \/ LoopRender
SpecLoop == Init /\ [][NextLoop]_vars

\* The scheduler started with or without each of its callbacks
AnyDeltas == {60, 170}
AdvanceLoopAny == \E d \in AnyDeltas : Advance(d, MaxNow)
StartAny == \E update \in BOOLEAN, render \in BOOLEAN : StartWith(update, render)
NextLoopAny == AdvanceLoopAny \/ StartAny \/ Stop \/ LoopBegin \/ LoopUpdate \/ LoopRender
SpecLoopAny == Init /\ [][NextLoopAny]_vars

\* The scheduler with its target rate changed between frames; the turns of the
\* while loop are counted up to MaxSteps
FPSValues == {30, 120, -60}
SetFPS == \E fps \in FPSValues : SetTargetFPS(fps)
LoopUpdateCounted == steps < MaxSteps /\ LoopUpdate
NextLoopFPS == AdvanceLoopAny \/ Start \/ SetFPS \/ LoopBegin \/ LoopUpdateCounted \/ LoopRender
SpecLoopFPS == Init /\ [][NextLoopFPS]_vars

\* The camera: logic ticks as the scheduler emits them, animation frames, keys,
\* and the calls of the controller's interface; the clock moves in half seconds
CamDeltas == {1500, 3000}
FollowTargets == {2}
CamKeys == {"Space"}
PresetNames == {"overview", "sun"}
AdvanceCam == \E d \in CamDeltas : Advance(d, MaxClock)

\* one fixed-step logic update, as LoopUpdate hands it to SpaceGameApp.update
LogicTick ==
    /\ pc = "idle"
    /\ sceneTime < MaxSceneTime
    /\ AppUpdate(UpdateArg(frameTime, 0))
    /\ UNCHANGED <<now, loopVars, histVars>>

KeyDownCam == \E k \in CamKeys : KeyDown(k)
KeyUpCam == \E k \in CamKeys : KeyUp(k)
FollowAny == \E p \in FollowTargets : FollowObject(p, NoOffset)
\* a call of animateToPreset from outside a key handler
PresetCall ==
    /\ \E n \in PresetNames : AnimateToPreset(n)
    /\ UNCHANGED <<now, loopVars, histVars, sceneVars, keys, pickVars, uiVars>>

NextCamera ==
    \/ AdvanceCam
    \/ LogicTick
    \/ AnimateFrame
    \/ PresetCall
    \/ KeyDownCam
    \/ KeyUpCam
    \/ FollowAny
    \/ StopFollowing
SpecCamera == Init /\ [][NextCamera]_vars

\* the same without the keyboard, and with the frames and the time the browser
\* keeps delivering
NextTransition ==
    \/ AdvanceCam
    \/ LogicTick
    \/ AnimateFrame
    \/ PresetCall
    \/ FollowAny
    \/ StopFollowing
FairSpecCamera ==
    Init /\ [][NextTransition]_vars /\ WF_vars(AnimateFrame) /\ WF_vars(AdvanceCam)

\* Free flight: the movement keys and the two toggles, tick by tick
FlyKeys == MoveKeys \cup {"KeyC", "KeyV"}
KeyDownFly == \E k \in FlyKeys : KeyDown(k)
KeyUpFly == \E k \in FlyKeys : KeyUp(k)
NextFly == LogicTick \/ KeyDownFly \/ KeyUpFly \/ ResetInput
SpecFly == Init /\ [][NextFly]_vars

\* The preset table as a caller can use it: known, runtime-registered, unknown
\* and inherited names, and arrays the caller goes on writing to
ApiDeltas == {3000}
ApiNames == {"sun", "myView", "pluto", "constructor"}
RegisterNames == {"sun", "myView"}
ArrayValues == {<<100, 50, 100>>, <<0, 20, 50>>}
AdvanceApi == \E d \in ApiDeltas : Advance(d, MaxClock)
PresetCallApi ==
    /\ \E n \in ApiNames : AnimateToPreset(n)
    /\ UNCHANGED <<now, loopVars, histVars, sceneVars, keys, pickVars, uiVars>>
AddPresetCall == \E n \in RegisterNames : AddPreset(n, 1, 2)
MutateArrayCall == \E elems \in ArrayValues : MutateArray(1, elems)
NextPresets ==
    \/ AdvanceApi
    \/ AnimateFrame
    \/ PresetCallApi
    \/ AddPresetCall
    \/ MutateArrayCall
    \/ FollowAny
SpecPresets == Init /\ [][NextPresets]_vars

\* followObject as a caller can use it: a body or a missing target, with or
\* without an offset, between direct animateToPosition calls
ApiTargets == {0, 2}
ApiOffsets == {NoOffset, World(0, 10, 0)}
ApiPoses == {World(0, 100, 200)}
PositionCall ==
    /\ \E p \in ApiPoses : AnimateToPosition(p, Zero3)
    /\ Called("animateToPosition", "", 0, FALSE)
    /\ UNCHANGED <<now, loopVars, histVars, sceneVars, keys, pickVars, uiVars>>
FollowCall == \E t \in ApiTargets, o \in ApiOffsets : FollowObject(t, o)
NextFollow ==
    \/ AdvanceApi
    \/ AnimateFrame
    \/ PositionCall
    \/ FollowCall
    \/ LogicTick
SpecFollow == Init /\ [][NextFollow]_vars

\* Picking: clicks along any ray, the removal timer, and the mode toggle
PickKeys == {"KeyC"}
Click == \E ray \in Rays : OnMouseClick(ray)
KeyDownPick == \E k \in PickKeys : KeyDown(k)
KeyUpPick == \E k \in PickKeys : KeyUp(k)
NextPick == Click \/ RemovePanel \/ KeyDownPick \/ KeyUpPick
SpecPick == Init /\ [][NextPick]_vars

\* The overlays of the page: the help panel's keys beside the clicks and the
\* timer of the planet-info panel
UIKeys == {"KeyH", "Escape"}
UIKey == \E code \in UIKeys : HandleKeyPress(code)
NextUI == UIKey \/ Click \/ RemovePanel
SpecUI == Init /\ [][NextUI]_vars

(***************************************************************************)
(* Camera transitions and following                                         *)
(***************************************************************************)
\* C1: a request made while a transition is in flight preempts it: the
\* transition in flight is always the latest one requested, and it started
\* from the pose the camera had at the instant of that request.
C1_LatestRequestPreempts ==
    isAnimating =>
        /\ anim.targetPosition = lastRequest.position
        /\ anim.targetLookAt = lastRequest.target
        /\ anim.startPosition = lastRequest.camAt
        /\ anim.startTarget = lastRequest.targetAt

\* C2: following and transitioning are never both true.
C2_FollowExcludesTransition == ~(followTarget # 0 /\ isAnimating)

\* C4: an animation frame that runs once animationDuration has elapsed puts
\* the camera at the requested end position and the orbit target at the
\* requested look-at point and clears isAnimating; and, frames and time being
\* delivered, every transition that has the time to end does end.
Elapsed == now - anim.startTime
C4_TransitionTerminates ==
    /\ [][(AnimateFrame /\ Elapsed >= AnimationDuration) =>
            /\ camPos' = anim.targetPosition
            /\ ocTarget' = anim.targetLookAt
            /\ ~isAnimating']_vars
    /\ ((isAnimating /\ anim.startTime + AnimationDuration <= MaxClock) ~> ~isAnimating)

C4_Witness ==
    /\ ~isAnimating
    /\ rafAnimate = 0
    /\ Elapsed >= AnimationDuration
    /\ anim.targetPosition = Vector3(PoseOf(InitialPresets, ExampleArrays, "sun").position)
    /\ anim.startPosition # World(0, 50, 100)
    /\ camPos = anim.targetPosition
    /\ ocTarget = anim.targetLookAt

(***************************************************************************)
(* Free flight                                                              *)
(***************************************************************************)
WASD == {"KeyW", "KeyS", "KeyA", "KeyD"}
KeyDirection(k, pos, tgt) ==
    CASE k = "KeyW" -> CameraForward(pos, tgt)
      [] k = "KeyS" -> VSub(Zero3, CameraForward(pos, tgt))
      [] k = "KeyA" -> VSub(Zero3, CameraRight(pos, tgt))
      [] k = "KeyD" -> CameraRight(pos, tgt)

\* C3: on a logic tick with free-fly movement enabled and exactly one of W, S,
\* A, D held, the camera moves by a non-zero displacement along its forward,
\* backward, left or right direction respectively.
C3_HeldKeyMovesCamera ==
    [][\A k \in WASD :
         (sceneTime' # sceneTime /\ wasdEnabled /\ HasInputManager /\ keys \cap WASD = {k})
           => VDot(VSub(camPos', camPos), KeyDirection(k, camPos, ocTarget)) > 0]_vars

(***************************************************************************)
(* The scheduler                                                            *)
(***************************************************************************)
Events(kind) == {i \in DOMAIN frameLog : frameLog[i].ev = kind}

\* C5: while every raw delta is at most the clamp, after every frame the
\* updates emitted so far are floor(S / h) and steps * h + residual = S,
\* whatever the frames S was split into.
C5_StepsAreFloorOfSum ==
    (pc = "idle" /\ withinClamp) =>
        /\ steps * frameTime + accumulator = sumRaw
        /\ steps = sumRaw \div frameTime

C5_Witness ==
    /\ pc = "idle"
    /\ withinClamp
    /\ steps >= 3
    /\ accumulator > 0
    /\ Cardinality(Events("update")) = 0

\* C6: a frame adds at most MaxDelta (50 ms) to the accumulator, and a raw
\* delta above it adds exactly MaxDelta and the frame goes on as any other.
C6_FrameAddsAtMostClamp ==
    [][(pc = "idle" /\ rafLoop' < rafLoop /\ isRunning) =>
          /\ pc' = "while"
          /\ accumulator' - accumulator <= MaxDelta
          /\ (now - lastTime > MaxDelta => accumulator' - accumulator = MaxDelta)]_vars

C6_Witness ==
    /\ pc = "idle"
    /\ ~withinClamp
    /\ frameLog # <<>>
    /\ frameLog[1].dt > MaxDelta
    /\ Cardinality(Events("render")) = 1

\* C7: after every frame the residual is below the fixed step, and every
\* update of a frame was given the fixed step, never the frame's raw delta.
C7_ResidualBelowStep ==
    /\ pc = "idle" => accumulator < frameTime
    /\ \A i \in Events("update") : frameLog[i].dt = frameTime

C7_Witness ==
    /\ pc = "idle"
    /\ Cardinality(Events("update")) >= 2
    /\ frameLog[1].dt # frameTime
    /\ accumulator > 0

\* C8: a frame processed while the loop runs invokes the render callback
\* exactly once, at its end, whatever the number of its updates.
C8_OneRenderPerFrame ==
    /\ (pc = "idle" /\ frameLog # <<>>) => Cardinality(Events("render")) = 1
    /\ pc = "while" => Cardinality(Events("render")) = 0

C8_Witness ==
    /\ pc = "idle"
    /\ Len(frameLog) = 2
    /\ frameLog[2].ev = "render"
    /\ steps >= 3

\* C9: within a frame every update comes before the render, and the render
\* only once the catch-up loop is over.
C9_UpdatesBeforeRender ==
    /\ \A i \in Events("render") : \A j \in Events("update") : j < i
    /\ Events("render") # {} => (pc = "idle" /\ ~CatchUp(accumulator, frameTime))

C9_Witness ==
    /\ pc = "idle"
    /\ Cardinality(Events("update")) >= 2
    /\ Cardinality(Events("render")) = 1

(***************************************************************************)
(* Orbits                                                                   *)
(***************************************************************************)
\* (radius * cos(speed * t), 0, radius * sin(speed * t))
OrbitAt(p, t) ==
    Vec((PlanetConfig(p).orbit.radius * Cos(PlanetConfig(p).orbit.speed * t)) \div Permille,
        0,
        (PlanetConfig(p).orbit.radius * Sin(PlanetConfig(p).orbit.speed * t)) \div Permille)

\* C10: once logic ticks have brought the scene to time t, the orbit group of
\* every orbiting body is at (radius*cos(speed*t), 0, radius*sin(speed*t)).
C10_OrbitIsFunctionOfTime ==
    sceneTime > 0 =>
        \A p \in Planets : PlanetConfig(p).hasOrbit => orbitPos[p] = OrbitAt(p, sceneTime)

C10_Witness ==
    /\ sceneTime >= 3 * frameTime
    /\ steps >= 3
    /\ \A p \in Planets : PlanetConfig(p).hasOrbit => orbitPos[p] # PlanetConfig(p).position

(***************************************************************************)
(* The controller's interface: follow, promises, presets                    *)
(***************************************************************************)
\* C11: a call that starts a transition while the camera follows a body
\* clears followTarget in that same call, and the camera has not been moved
\* by the interpolation yet when it is cleared.
C11_StartClearsFollow ==
    [][(~isAnimating /\ isAnimating') =>
          /\ followTarget' = 0
          /\ camPos' = camPos
          /\ ocTarget' = ocTarget]_vars

\* a transition has just been started by a call made while following
C11_Witness ==
    /\ lastRequest.started
    /\ lastRequest.following # 0
    /\ isAnimating
    /\ anim.startTime = now
    /\ followTarget = 0

\* C12: the promise of an animateToPosition / animateToPreset call resolves
\* exactly once, and only when the camera has reached the end pose that call
\* asked for, also for a call made during another call's transition.
C12_SignalOnlyAtEndPose ==
    /\ resolved <= 1
    /\ lastResolve.fired =>
          /\ lastResolve.camAt = lastResolve.position
          /\ lastResolve.targetAt = lastResolve.target

(***************************************************************************)
(* Picking and selection                                                    *)
(***************************************************************************)
\* the planet whose mesh the ray hits first, 0 when it hits no planet mesh
RECURSIVE NearestMesh(_)
NearestMesh(ray) ==
    IF ray = <<>> THEN 0
    ELSE IF Head(ray).part = "mesh" THEN Head(ray).planet ELSE NearestMesh(Tail(ray))

\* C13: after a click the selected planet is the one whose mesh the pick ray
\* hits nearest to the camera, and nothing is selected when the ray hits no
\* planet mesh, whatever the camera's control mode.
C13_ClickSelectsNearestHit ==
    lastClick.made => selectedPlanet = NearestMesh(lastClick.ray)

\* C14: at most one planet has isSelected, and it is selectedPlanet; within a
\* click every setSelected(false) comes before every setSelected(true).
C14_AtMostOneSelected ==
    /\ {p \in Planets : isSelected[p]} =
          IF selectedPlanet = 0 THEN {} ELSE {selectedPlanet}
    /\ \A i, j \in 1..Len(calls) :
          (calls[i].selected /\ ~calls[j].selected) => j < i

\* a click has moved the selection from one planet to another
C14_Witness ==
    /\ lastClick.made
    /\ lastClick.before # 0
    /\ selectedPlanet # 0
    /\ selectedPlanet # lastClick.before
    /\ calls = <<[planet |-> lastClick.before, selected |-> FALSE],
                 [planet |-> selectedPlanet, selected |-> TRUE]>>

(***************************************************************************)
(* Presets and follow targets that do not exist                             *)
(***************************************************************************)
\* C15: animateToPreset with a name that was never registered does not throw,
\* starts no transition, does not stop following and leaves the camera
\* position and the orbit target as they are.
C15_UnknownPresetIsNoOp ==
    [][(/\ lastCall' # lastCall
        /\ lastCall'.op = "animateToPreset"
        /\ lastCall'.name \notin DOMAIN registered)
       => /\ ~lastCall'.threw
          /\ UNCHANGED <<isAnimating, followTarget, camPos, ocTarget>>]_vars

\* C16: followObject with a missing target (null) does not throw and leaves
\* followTarget, followOffset and isAnimating as they were.
C16_NullFollowIsNoOp ==
    [][(/\ lastCall' # lastCall
        /\ lastCall'.op = "followObject"
        /\ lastCall'.target = 0)
       => /\ ~lastCall'.threw
          /\ UNCHANGED <<followTarget, followOffset, isAnimating>>]_vars

\* C20: the four construction-time names resolve, and every name resolves to
\* the position and target values addPreset was last given for it, whatever
\* the caller has since done to its arrays; a transition started by
\* animateToPreset(name) ends at those values.
C20_PresetsResolveAsRegistered ==
    /\ [](/\ DOMAIN InitialPresets \subseteq DOMAIN presets
          /\ \A n \in DOMAIN presets : PoseOf(presets, callerArrays, n) = registered[n])
    /\ [][(~isAnimating /\ isAnimating' /\ lastCall'.op = "animateToPreset")
          => /\ anim'.targetPosition = Vector3(registered[lastCall'.name].position)
             /\ anim'.targetLookAt = Vector3(registered[lastCall'.name].target)]_vars

\* a transition to a preset registered at run time has just started, after the
\* caller has overwritten the array it registered
C20_Witness ==
    /\ "myView" \in DOMAIN presets
    /\ lastCall.op = "animateToPreset"
    /\ lastCall.name = "myView"
    /\ lastRequest.started
    /\ isAnimating
    /\ anim.startTime = now
    /\ anim.targetPosition = Vector3(registered["myView"].position)
    /\ callerArrays[1] # registered["myView"].position

(***************************************************************************)
(* Free flight and control modes                                            *)
(***************************************************************************)
\* the keys held compose no direction: each movement key is held together
\* with its opposite, or not at all
Balanced(ks) ==
    /\ ("Space" \in ks) <=> ("ControlLeft" \in ks)
    /\ ("KeyW" \in ks) <=> ("KeyS" \in ks)
    /\ ("KeyA" \in ks) <=> ("KeyD" \in ks)

\* C17: a logic tick on which the keys held compose the zero direction (none
\* held, or opposing ones such as Space and Ctrl together) leaves the camera
\* position and the orbit target where they are.
C17_ZeroDirectionNoMove ==
    [][(sceneTime' # sceneTime /\ Balanced(keys) /\ followTarget = 0)
       => /\ Direction(keys, camPos, ocTarget) = Zero3
          /\ camPos' = camPos
          /\ ocTarget' = ocTarget]_vars

\* a tick has run with Space and Ctrl held and free flight enabled
C17_Witness ==
    /\ sceneTime > 0
    /\ lastTick.keys = {"Space", "ControlLeft"}
    /\ lastTick.wasdEnabled
    /\ camPos = lastTick.position
    /\ ocTarget = lastTick.target

\* C18: the orbit controller is enabled exactly when controlMode is 'orbit':
\* setControlMode('free') disables it and setControlMode('orbit') enables it
\* again; a change of mode moves neither the camera nor the orbit target, and
\* every KeyC keydown flips the mode between 'orbit' and 'free'.
C18_ModeTogglesOrbitControls ==
    /\ [](ocEnabled <=> controlMode = "orbit")
    /\ [][(controlMode' # controlMode)
          => /\ controlMode' = (IF controlMode = "orbit" THEN "free" ELSE "orbit")
             /\ camPos' = camPos
             /\ ocTarget' = ocTarget]_vars
    /\ [][("KeyC" \notin keys /\ "KeyC" \in keys') => controlMode' # controlMode]_vars

\* KeyC has switched the camera to free flight
C18_Witness ==
    /\ "KeyC" \in keys
    /\ controlMode = "free"
    /\ ~ocEnabled
    /\ camPos = World(0, 50, 100)
    /\ ocTarget = Zero3

(***************************************************************************)
(* The scheduler without callbacks                                          *)
(***************************************************************************)
\* C19: a missing callback is skipped and breaks nothing: a turn of the
\* catch-up loop without an update callback invokes nothing and still takes one
\* step off the accumulator, a frame without a render callback renders
\* nothing, and every frame ends with less than a step left and with the next
\* frame requested.
C19_MissingCallbackIsSkipped ==
    /\ [][(pc = "while" /\ pc' = "while" /\ ~updateCallback)
          => /\ accumulator' = accumulator - frameTime
             /\ frameLog' = frameLog
             /\ UNCHANGED <<sceneVars, camVars>>]_vars
    /\ [][(pc = "while" /\ pc' = "idle")
          => /\ accumulator' < frameTime
             /\ rafLoop' = rafLoop + 1
             /\ (~renderCallback => frameLog' = frameLog)]_vars

\* a frame long enough for a catch-up step has run to its end with both
\* callbacks missing, and the next frame is requested
C19_Witness ==
    /\ pc = "idle"
    /\ isRunning
    /\ ~updateCallback
    /\ ~renderCallback
    /\ Len(frameLog) = 1
    /\ frameLog[1].dt >= frameTime
    /\ accumulator < frameTime
    /\ rafLoop > 0

(***************************************************************************)
(* The order of a logic tick                                                *)
(***************************************************************************)
\* C21: on a logic tick the bodies are moved to the tick's new time before the
\* camera is: a camera that follows a body moves toward the position the body
\* has at the end of that tick, not toward the one it had at the tick before.
C21_FollowReadsCurrentTick ==
    [][(sceneTime' # sceneTime /\ followTarget # 0 /\ ~isAnimating /\ keys = {})
       => /\ ocTarget' = Lerp(ocTarget, VAdd(groupPos'[followTarget], orbitPos'[followTarget]),
                             FollowSpeed)
          /\ camPos' = Lerp(camPos, VAdd(VAdd(groupPos'[followTarget], orbitPos'[followTarget]),
                                         followOffset), FollowSpeed)]_vars

(***************************************************************************)
(* The scheduler's frame-callback chains                                    *)
(***************************************************************************)
\* the requestAnimationFrame(this.loop) chains alive: the callbacks waiting,
\* and the one being run, which requests its successor at its end
LiveChains == rafLoop + (IF pc = "while" THEN 1 ELSE 0)

\* C22: whatever start() and stop() calls were made, at most one chain of
\* requestAnimationFrame(loop) callbacks is alive.
C22_AtMostOneChain == LiveChains <= 1

(***************************************************************************)
(* The planet-info panel                                                    *)
(***************************************************************************)
\* C23: while a planet is selected its info panel is in the document and shows
\* that planet: no removal timer left by an earlier deselection takes it away.
C23_PanelStaysWhileSelected ==
    selectedPlanet # 0 =>
        /\ infoPanel.present
        /\ infoPanel.planet = selectedPlanet

(***************************************************************************)
(* The catch-up loop at any target rate                                     *)
(***************************************************************************)
\* C24: at every target rate setTargetFPS can set, the catch-up loop ends in
\* every frame: each turn takes the accumulator strictly down and never below
\* zero, so the updates of a frame times the step never exceed what the frame
\* started with, the previous residual plus at most 50 ms.
C24_CatchUpTerminates ==
    /\ [](accumulator >= 0)
    /\ [][(pc = "while" /\ pc' = "while") => accumulator' < accumulator]_vars

(***************************************************************************)
(* Following                                                                *)
(***************************************************************************)
\* C25: on a logic tick with a follow target and no transition in flight (and
\* no movement key held) the camera moves the fraction followSpeed of the way
\* from where it is to the target's world position plus followOffset, and the
\* orbit target the same fraction of the way to the target's world position;
\* on a tick with a transition in flight following moves neither.
C25_FollowMovesFixedFraction ==
    [][(sceneTime' # sceneTime /\ followTarget # 0 /\ keys = {})
       => IF ~isAnimating
            THEN /\ camPos' = Lerp(camPos, VAdd(WorldPosition(followTarget), followOffset),
                                   FollowSpeed)
                 /\ ocTarget' = Lerp(ocTarget, WorldPosition(followTarget), FollowSpeed)
            ELSE /\ camPos' = camPos
                 /\ ocTarget' = ocTarget]_vars

\* a tick has moved a following camera and its orbit target
C25_Witness ==
    /\ sceneTime > 0
    /\ lastTick.following # 0
    /\ ~lastTick.animating
    /\ followOffset # World(10, 10, 10)
    /\ camPos # lastTick.position
    /\ ocTarget # lastTick.target

(***************************************************************************)
(* Free flight: what a step moves, and how far                              *)
(***************************************************************************)
\* C26: a free-fly step in 'orbit' mode moves the camera and the orbit target
\* by the same displacement, so the offset between them is unchanged; in
\* 'free' mode it moves the camera only and the target stays where it is.
C26_OrbitTargetMovesWithCamera ==
    [][(sceneTime' # sceneTime /\ followTarget = 0)
       => IF controlMode = "orbit"
            THEN /\ VSub(ocTarget', ocTarget) = VSub(camPos', camPos)
                 /\ VSub(camPos', ocTarget') = VSub(camPos, ocTarget)
            ELSE ocTarget' = ocTarget]_vars

\* a tick in 'free' mode has moved the camera and left the target
C26_Witness ==
    /\ sceneTime > 0
    /\ lastTick.controlMode = "free"
    /\ lastTick.wasdEnabled
    /\ camPos # lastTick.position
    /\ ocTarget = lastTick.target

\* the distance moveSpeed * dt, times fastMoveMultiplier with a Shift key held,
\* for the dt of a logic tick
StepLength(ks) ==
    ((IF "ShiftLeft" \in ks \/ "ShiftRight" \in ks THEN MoveSpeed * FastMoveMultiplier
                                                    ELSE MoveSpeed)
       * frameTime * PosScale) \div UnitsPerSecond

\* C27: a free-fly step that moves the camera moves it by exactly moveSpeed*dt,
\* or moveSpeed*fastMoveMultiplier*dt with a Shift key held, however many
\* movement keys are held.
C27_StepLengthIsSpeedTimesDt ==
    [][(sceneTime' # sceneTime /\ followTarget = 0 /\ camPos' # camPos)
       => VDot(VSub(camPos', camPos), VSub(camPos', camPos))
            = StepLength(keys) * StepLength(keys)]_vars

\* a tick with Space and Shift held has moved the camera up by the fast step
C27_Witness ==
    /\ sceneTime > 0
    /\ lastTick.keys = {"Space", "ShiftLeft"}
    /\ lastTick.wasdEnabled
    /\ camPos = VAdd(lastTick.position, Vec(0, StepLength(lastTick.keys), 0))
    /\ StepLength(lastTick.keys) = 3 * StepLength({})

(***************************************************************************)
(* The simulation clock                                                     *)
(***************************************************************************)
\* C28: the scene's time is the number of logic updates so far times the fixed
\* step: it starts at 0, a logic update adds exactly one step to it, and
\* nothing else changes it, stop() and start() included.
C28_ClockCountsUpdates ==
    /\ [](sceneTime = steps * frameTime)
    /\ [][\/ sceneTime' = sceneTime
          \/ (pc = "while" /\ steps' = steps + 1 /\ sceneTime' = sceneTime + frameTime)]_vars

\* the loop has been stopped and started again after several updates (two
\* frame callbacks are pending), and the clock has kept its value
C28_Witness ==
    /\ pc = "idle"
    /\ isRunning
    /\ rafLoop = 2
    /\ steps >= 2
    /\ sceneTime = steps * frameTime

(***************************************************************************)
(* Bodies without an orbit                                                  *)
(***************************************************************************)
\* C29: a body without an orbit descriptor has its group at config.position
\* from construction on and its orbit group at the origin: no update moves
\* either of them.
C29_FixedBodyStaysPut ==
    \A p \in Planets :
        ~PlanetConfig(p).hasOrbit =>
            /\ groupPos[p] = PlanetConfig(p).position
            /\ orbitPos[p] = Zero3

\* logic updates have moved the orbiting bodies
C29_Witness ==
    /\ steps >= 2
    /\ sceneTime = steps * frameTime
    /\ \E p \in Planets : ~PlanetConfig(p).hasOrbit /\ WorldPosition(p) = PlanetConfig(p).position
    /\ \E p \in Planets : PlanetConfig(p).hasOrbit /\ WorldPosition(p) # PlanetConfig(p).position

(***************************************************************************)
(* The help panel                                                           *)
(***************************************************************************)
\* the help panel is in the document and not hidden
HelpVisible == helpDisplay \in {"", "block"}

\* C30: counted from the start or from the last Escape, the help panel is
\* visible after an odd number of H presses and hidden after an even number;
\* the first H press shows it.
C30_HKeyTogglesHelp == HelpVisible <=> (hPresses % 2 = 1)

====
